---- MODULE Spec2Model ----
(***************************************************************************)
(* Model of the weather station of src/main.py: the Network forecast       *)
(* getters, WeatherStation.logic (the advisory decision), setNP (the       *)
(* indicator pixel), updateDisplay (the fast tick) and getForecast (the    *)
(* slow tick), together with the constructor that runs both once before    *)
(* arming the two periodic timers.                                         *)
(*                                                                         *)
(* Numbers.  Every Python float of the program is modelled as an integer   *)
(* count of ten-thousandths (15.0 is 150000, 0.001 is 10, 39.9 is 399000). *)
(* All comparisons of the program are between such values, so the order    *)
(* is kept exactly.  str() of a float is modelled by FloatStr.             *)
(*                                                                         *)
(* Optional values (a forecast slot's rain and snow, the humidity          *)
(* reading) are sequences of length 0 (absent, Python's None or a missing  *)
(* JSON key) or 1 (present).                                               *)
(***************************************************************************)
EXTENDS Integers, Sequences, FiniteSets, TLC

\* Fixed point: the number of model units in 1.0 (four decimal places).
Scale == 10 * 10 * 10 * 10

\* ---------------------------------------------------------------- constants

\* src/main.py:114, the number of forecast slots requested from the service.
count == 3

\* src/main.py:22, offset in hours to London.
timeoffset == 1

\* src/main.py:33-36, colours of the indicator pixel.
RED == <<100, 0, 0>>
GREEN == <<0, 100, 0>>
BLUE == <<0, 0, 100>>
BLACK == <<0, 0, 0>>

Colors == {RED, GREEN, BLUE, BLACK}

\* src/main.py:283, rain threshold 0.001 (in ten-thousandths).
rt == 10

\* src/main.py:286, the biking temperature 10 (degrees), in ten-thousandths.
BikingTemp == 10 * Scale

\* src/main.py:293, the humidity band 40..60 (percent), in ten-thousandths.
HumLow == 40 * Scale
HumHigh == 60 * Scale

\* ------------------------------------------------------------------ inputs

\* An optional value: absent, or present with value v.
Absent == <<>>
Some(v) == <<v>>

\* Forecast temperatures (degrees): 10.0 (the boundary, not above it), 15.0.
ForecastTemps == {10 * Scale, 15 * Scale}

\* Forecast rain per slot (mm): 0.0009, 0.001 (the threshold itself), 2.0.
RainValues == {9, 10, 2 * Scale}

\* Forecast snow per slot (mm): 1.0.
SnowValues == {1 * Scale}

\* One entry of weatherdata["list"]: main.temp is always delivered, the rain
\* and snow objects only when precipitation is forecast.
Slots ==
    [temp : ForecastTemps,
     rain : {Absent} \cup {Some(v) : v \in RainValues},
     snow : {Absent} \cup {Some(v) : v \in SnowValues}]

\* The slots the periodic refresh delivers in the timer specification: a dry
\* warm slot, a rainy cold slot with snow, and a slot at the rain threshold.
RefreshSlots ==
    {[temp |-> 15 * Scale, rain |-> Absent, snow |-> Absent],
     [temp |-> 10 * Scale, rain |-> Some(2 * Scale), snow |-> Some(1 * Scale)],
     [temp |-> 15 * Scale, rain |-> Some(10), snow |-> Absent]}

\* All sequences over S of length 0..n.
RECURSIVE SeqsUpTo(_, _)
SeqsUpTo(S, n) ==
    IF n = 0 THEN {<<>>}
    ELSE LET shorter == SeqsUpTo(S, n - 1)
         IN  shorter \cup {Append(s, x) : s \in {t \in shorter : Len(t) = n - 1}, x \in S}

\* self.weatherdata: None (has = FALSE) or the decoded forecast document, of
\* which only the "list" entries are read.
NoWeatherdata == [has |-> FALSE, list |-> <<>>]
Document(slots) == [has |-> TRUE, list |-> slots]

Documents(S, n) == {Document(l) : l \in SeqsUpTo(S, n)}

\* The timer specification refreshes with forecasts of at most this many slots.
MaxRefresh == 1

RefreshDocuments == Documents(RefreshSlots, MaxRefresh)

\* Door pin values (machine.Pin.value()).
DoorValues == {0, 1}

\* Humidity readings (percent): absent, 39.9, 40.0, 50.0, 60.0, 60.1.
HumValues ==
    {Absent} \cup {Some(h) : h \in {399000, 40 * Scale, 50 * Scale, 60 * Scale, 601000}}

\* Local temperature readings (degrees): 15.0, 22.5.
LocalTemps == {15 * Scale, 225000}

\* Wall clock (hour, minute) as utime.localtime() returns it.
ClockValues == {<<9, 5>>}

\* HTTP status codes of the forecast service.
StatusValues == {200, 401}

\* ------------------------------------------------------------ str of floats

\* The digits of f written in exactly width places.
RECURSIVE Digits(_, _)
Digits(f, width) ==
    IF width = 0 THEN ""
    ELSE Digits(f \div 10, width - 1) \o ToString(f % 10)

\* The fraction f (of width places) without trailing zeros, at least one digit.
RECURSIVE FracStr(_, _)
FracStr(f, width) ==
    IF width > 1 /\ f % 10 = 0 THEN FracStr(f \div 10, width - 1)
    ELSE Digits(f, width)

\* str(x) for the float x (repr: shortest form, always with a fraction).
RECURSIVE FloatStr(_)
FloatStr(x) ==
    IF x < 0 THEN "-" \o FloatStr(0 - x)
    ELSE ToString(x \div Scale) \o "." \o FracStr(x % Scale, 4)

\* str(v) for an optional float: "None" when absent.
OptStr(v) == IF v = Absent THEN "None" ELSE FloatStr(v[1])

\* ------------------------------------------------------------------- state

VARIABLES
    pc,            \* "boot", "fetched", "running" (timers armed), "crashed"
    weatherdata,   \* Network.weatherdata
    np,            \* the colour held by the pixel, np[0]
    lcd,           \* the display's frame buffer, line -> text
    shown,         \* what the display last showed
    mqtt,          \* last payload published per topic
    r,             \* the last HTTP response
    tick,          \* record of the last updateDisplay call
    lastOp         \* the handler that ran last

vars == <<pc, weatherdata, np, lcd, shown, mqtt, r, tick, lastOp>>

Lines == 0..5
BlankLcd == [l \in Lines |-> ""]

Topics ==
    {"wz/door", "wz/temp", "wz/hum", "forecast/tempmin", "forecast/tempmax", "wz/alert"}

NoTick ==
    [ran |-> FALSE, door |-> 0, hum |-> Absent, ltemp |-> 0,
     seen |-> NoWeatherdata, summary |-> Absent, rain |-> 0,
     rule |-> "", exc |-> "", res |-> Absent]

\* ------------------------------------------------------------------ Network

\* Network.getRain: the rain values of the slots that carry one, in order.
RECURSIVE RainOf(_)
RainOf(list) ==
    IF list = <<>> THEN <<>> ELSE Head(list).rain \o RainOf(Tail(list))

getRain(wd) == IF wd.has THEN RainOf(wd.list) ELSE <<>>

\* Network.getSnow: the snow values of the slots that carry one, in order.
RECURSIVE SnowOf(_)
SnowOf(list) ==
    IF list = <<>> THEN <<>> ELSE Head(list).snow \o SnowOf(Tail(list))

getSnow(wd) == IF wd.has THEN SnowOf(wd.list) ELSE <<>>

\* Network.getTemp: the temperature of every slot, in order.
RECURSIVE TempOf(_)
TempOf(list) ==
    IF list = <<>> THEN <<>> ELSE <<Head(list).temp>> \o TempOf(Tail(list))

getTemp(wd) == IF wd.has THEN TempOf(wd.list) ELSE <<>>

\* Python's max() and min() of a non-empty list.
Max(l) == CHOOSE x \in {l[i] : i \in 1..Len(l)} : \A j \in 1..Len(l) : l[j] <= x
Min(l) == CHOOSE x \in {l[i] : i \in 1..Len(l)} : \A j \in 1..Len(l) : x <= l[j]

\* Network.gettime: the hour is shifted by timeoffset, the minute kept.
gettime(clock) == <<clock[1] + timeoffset, clock[2]>>

\* ------------------------------------------------------------ the decision

\* The rain maximum with missing rain data counted as 1 mm of rain.
MaxRainDefaultOne(rainlist) == IF rainlist = <<>> THEN 1 * Scale ELSE Max(rainlist)

\* logic, 270-273: max of the rain list, 0 when max() raises ValueError.
MaxRain(rainlist) == IF rainlist = <<>> THEN 0 ELSE Max(rainlist)

\* The biking condition with the rain threshold itself counted as dry.
BikingCondLoose(rain, templist) ==
    IF ~(rain <= rt) THEN "no"
    ELSE IF templist = <<>> THEN "NameError"
    ELSE IF Min(templist) > BikingTemp THEN "yes" ELSE "no"

\* logic, 286: rain < rt and mintemp > 10.  mintemp is bound only when the
\* temperature list is not empty (278-279 bind maxtemp alone); "and" reads it
\* only after rain < rt held.  The result is "yes", "no" or the exception.
BikingCond(rain, templist) ==
    IF ~(rain < rt) THEN "no"
    ELSE IF templist = <<>> THEN "NameError"
    ELSE IF Min(templist) > BikingTemp THEN "yes" ELSE "no"

\* logic, 290: rain > rt and self.doorOpen().
DoorCond(rain, door) == rain > rt /\ door # 0

\* logic, 293: hum < 40 or hum > 60; comparing None raises TypeError.
HumCond(hum) ==
    IF hum = Absent THEN "TypeError"
    ELSE IF hum[1] < HumLow \/ hum[1] > HumHigh THEN "yes" ELSE "no"

\* The chain with the humidity rule tested first.
RuleHumidityFirst(rain, templist, door, hum) ==
    LET b == BikingCond(rain, templist)
        h == HumCond(hum)
    IN  IF h = "TypeError" THEN "TypeError"
        ELSE IF h = "yes" THEN "HumidityAlert"
        ELSE IF b = "NameError" THEN "NameError"
        ELSE IF b = "yes" THEN "Biking"
        ELSE IF DoorCond(rain, door) THEN "DoorAlert"
        ELSE "Neutral"

\* logic, 286-297: the branch of the if/elif chain that is entered, or the
\* exception raised while its conditions are evaluated.
Rule(rain, templist, door, hum) ==
    LET b == BikingCond(rain, templist)
    IN  IF b = "NameError" THEN "NameError"
        ELSE IF b = "yes" THEN "Biking"
        ELSE IF DoorCond(rain, door) THEN "DoorAlert"
        ELSE LET h == HumCond(hum)
             IN  IF h = "TypeError" THEN "TypeError"
                 ELSE IF h = "yes" THEN "HumidityAlert"
                 ELSE "Neutral"

\* A message or the exception raised while it is built.
Text(s) == [exc |-> "", text |-> Some(s)]
Raise(e) == [exc |-> e, text |-> Absent]

\* logic, 289: "biking: " + templist[0] adds a float to a str: TypeError.
BikingMessage(templist) == Raise("TypeError")

\* logic, 298: "aussen: " + str(templist[0]); IndexError on an empty list.
NeutralMessage(templist) ==
    IF templist = <<>> THEN Raise("IndexError")
    ELSE Text("aussen: " \o FloatStr(templist[1]))

\* WeatherStation.logic on the forecast wd, the door pin, the humidity and the
\* colour the pixel holds: the colour afterwards (setNP), the value of rain,
\* the branch entered, the exception raised ("" for none) and the result.
Logic(wd, door, hum, npOld) ==
    LET rain == MaxRain(getRain(wd))
        templist == getTemp(wd)
        rule == Rule(rain, templist, door, hum)
        out(color, m) ==
            [np |-> color, rain |-> rain, rule |-> rule, exc |-> m.exc, res |-> m.text]
    IN  CASE rule = "Biking" -> out(GREEN, BikingMessage(templist))
          [] rule = "DoorAlert" -> out(RED, Text("HODOR"))
          [] rule = "HumidityAlert" -> out(BLUE, Text("Humidity !"))
          [] rule = "Neutral" -> out(BLACK, NeutralMessage(templist))
          [] OTHER -> out(npOld, Raise(rule))

\* ------------------------------------------------------------- the handlers

\* "X(max): {0}".format(m): m is the int 0 when the list is empty, else a float.
MaxLine(label, values) ==
    label \o (IF values = <<>> THEN "0" ELSE FloatStr(Max(values)))

\* WeatherStation.updateDisplay on one sample of the humidity, the local
\* temperature and the clock, and on the two reads it makes of the door pin:
\* door is the value doorOpen() returns inside logic() (line 290), doorPub the
\* value it returns for the wz/door message (line 232); the pin may change
\* between the two.  wdL is the value of self.net.weatherdata at the reads
\* made by logic() and wdS its value at the later reads of the summary (the
\* handler itself never assigns weatherdata, so both are the stored forecast).
\* np0, shown0 and mqtt0 are the pixel, the display and the retained messages
\* the handler finds.  An exception ends the handler where it is raised.
updateDisplay(wdL, wdS, door, doorPub, hum, ltemp, clock, np0, shown0, mqtt0) ==
    LET lg == Logic(wdL, door, hum, np0)
        returned == lg.exc = ""
        temp == getTemp(wdS)
        complete == returned /\ temp # <<>>
        tme == gettime(clock)
        head == [BlankLcd EXCEPT
                    ![0] = ToString(tme[1]) \o ":" \o ToString(tme[2]),
                    ![1] = "Innen: " \o FloatStr(ltemp) \o ":" \o OptStr(hum)]
        full == [head EXCEPT
                    ![2] = "Temp: " \o FloatStr(Min(temp)) \o ":" \o FloatStr(Max(temp)),
                    ![3] = MaxLine("Rain(max): ", getRain(wdS)),
                    ![4] = MaxLine("Snow(max): ", getSnow(wdS)),
                    ![5] = lg.res[1]]
        sensors == [mqtt0 EXCEPT
                    !["wz/door"] = ToString(doorPub),
                    !["wz/temp"] = FloatStr(ltemp),
                    !["wz/hum"] = OptStr(hum)]
        all == [sensors EXCEPT
                    !["forecast/tempmin"] = FloatStr(Min(temp)),
                    !["forecast/tempmax"] = FloatStr(Max(temp)),
                    !["wz/alert"] = lg.res[1]]
        buf == IF ~returned THEN BlankLcd ELSE IF complete THEN full ELSE head
    IN  [np |-> lg.np,
         lcd |-> buf,
         shown |-> IF ~returned THEN shown0 ELSE buf,
         mqtt |-> IF ~returned THEN mqtt0 ELSE IF complete THEN all ELSE sensors,
         tick |-> [ran |-> TRUE, door |-> door, hum |-> hum, ltemp |-> ltemp,
                   seen |-> wdL,
                   summary |-> IF returned THEN Some(wdS) ELSE Absent,
                   rain |-> lg.rain, rule |-> lg.rule,
                   exc |-> IF returned /\ ~complete THEN "ValueError" ELSE lg.exc,
                   res |-> lg.res]]

\* The timer 1 callback (and the call of line 181) on the station's state.
UpdateDisplayOn(wdL, wdS, door, doorPub, hum, ltemp, clock) ==
    \E u \in {updateDisplay(wdL, wdS, door, doorPub, hum, ltemp, clock,
                           np, shown, mqtt)} :
        /\ np' = u.np
        /\ lcd' = u.lcd
        /\ shown' = u.shown
        /\ mqtt' = u.mqtt
        /\ tick' = u.tick
        /\ weatherdata' = wdS
        /\ lastOp' = "updateDisplay"
        /\ UNCHANGED r

\* updateDisplay whose summary reads see a forecast fetched after logic().
UpdateDisplayRefetch(door, doorPub, hum, ltemp, clock) ==
    \E d \in RefreshDocuments :
        UpdateDisplayOn(weatherdata, d, door, doorPub, hum, ltemp, clock)

UpdateDisplay(door, doorPub, hum, ltemp, clock) ==
    UpdateDisplayOn(weatherdata, weatherdata, door, doorPub, hum, ltemp, clock)

\* Network.getForecast that stores whatever the service answered.
GetForecastAnyStatus ==
    \E status \in StatusValues, d \in RefreshDocuments :
        /\ r' = [status |-> status, body |-> Some(d)]
        /\ weatherdata' = d
        /\ lastOp' = "getForecast"
        /\ UNCHANGED <<np, lcd, shown, mqtt, tick>>

\* Network.getForecast: the document is stored on status 200 only.
GetForecast ==
    \E status \in StatusValues, d \in RefreshDocuments :
        /\ r' = [status |-> status, body |-> IF status = 200 THEN Some(d) ELSE Absent]
        /\ weatherdata' = IF status = 200 THEN d ELSE weatherdata
        /\ lastOp' = "getForecast"
        /\ UNCHANGED <<np, lcd, shown, mqtt, tick>>

\* --------------------------------------------------------- the constructor

\* The samples a tick of the timer specification draws: door closed or open
\* at each of its two reads;
\* humidity absent, in the band (50.0) or above it (60.1); 22.5 degrees.
TimerHums == {Absent, Some(50 * Scale), Some(601000)}
TimerTemps == {225000}

\* WeatherStation.__init__, 178: the first fetch.
BootFetch ==
    /\ pc = "boot"
    /\ GetForecast
    /\ pc' = "fetched"

\* WeatherStation.__init__, 181-191: the first updateDisplay; the timers are
\* armed only when it returns, an exception ends the constructor.
BootTick ==
    /\ pc = "fetched"
    /\ \E door \in DoorValues, doorPub \in DoorValues, hum \in TimerHums,
          ltemp \in TimerTemps, clock \in ClockValues :
           UpdateDisplay(door, doorPub, hum, ltemp, clock)
    /\ pc' = IF tick'.exc = "" THEN "running" ELSE "crashed"

\* Timer 1, every 60 s.  A callback runs to its end before the next starts.
TimerUpdateDisplay ==
    /\ pc = "running"
    /\ \E door \in DoorValues, doorPub \in DoorValues, hum \in TimerHums,
          ltemp \in TimerTemps, clock \in ClockValues :
           UpdateDisplay(door, doorPub, hum, ltemp, clock)
    /\ pc' = pc

\* Timer 2, every 180 s.
TimerGetForecast ==
    /\ pc = "running"
    /\ GetForecast
    /\ pc' = pc

\* The state when the constructor reaches its first fetch: self_info has left
\* the pixel black and the display cleared and shown.
Init ==
    /\ pc = "boot"
    /\ weatherdata = NoWeatherdata
    /\ np = BLACK
    /\ lcd = BlankLcd
    /\ shown = BlankLcd
    /\ mqtt = [t \in Topics |-> ""]
    /\ r = [status |-> 0, body |-> Absent]
    /\ tick = NoTick
    /\ lastOp = "construct"

Next == BootFetch \/ BootTick \/ TimerUpdateDisplay \/ TimerGetForecast

Spec == Init /\ [][Next]_vars

\* ------------------------------------------------- the decision, all inputs

\* The forecasts and the humidities of the boot tick from which the decision
\* is explored: one slot each, the sensor in range.
BootDocuments == {Document(<<s>>) : s \in RefreshSlots}

BootHums == {Some(50 * Scale)}

\* The station after its constructor returned (the fetch of line 160, the tick
\* of line 181 on a steady door, both timers armed) and timer 2 then stored
\* any forecast of up to count slots: the pixel, the display and the retained
\* messages are those the boot tick left.
InitEval ==
    \E boot \in BootDocuments, door \in DoorValues, hum \in BootHums,
       ltemp \in TimerTemps, clock \in ClockValues :
        LET u == updateDisplay(boot, boot, door, door, hum, ltemp, clock,
                               BLACK, BlankLcd, [t \in Topics |-> ""])
        IN  /\ u.tick.exc = ""
            /\ pc = "running"
            /\ weatherdata \in Documents(Slots, count)
            /\ np = u.np
            /\ lcd = u.lcd
            /\ shown = u.shown
            /\ mqtt = u.mqtt
            /\ r = [status |-> 200, body |-> Some(weatherdata)]
            /\ tick = u.tick
            /\ lastOp = "getForecast"

\* The first tick of timer 1 after that refresh, on every sample of the
\* sensors.
EvalUpdateDisplay ==
    /\ pc = "running"
    /\ lastOp = "getForecast"
    /\ \E door \in DoorValues, doorPub \in DoorValues, hum \in HumValues,
          ltemp \in LocalTemps, clock \in ClockValues :
           UpdateDisplay(door, doorPub, hum, ltemp, clock)
    /\ pc' = pc

NextEval == EvalUpdateDisplay

SpecEval == InitEval /\ [][NextEval]_vars

\* ------------------------------------------------------------------ claims
\* The properties below read the record of the last tick.  What a claim
\* expects is computed here from the forecast the tick read, with sets, and
\* not with the operators that model the program.

\* The rain values carried by the slots of the forecast wd.
CarriedRain(wd) ==
    {wd.list[i].rain[1] : i \in {j \in 1..Len(wd.list) : wd.list[j].rain # Absent}}

\* The temperatures of the slots of the forecast wd.
SlotTemps(wd) == {wd.list[i].temp : i \in 1..Len(wd.list)}

SetMax(S) == CHOOSE x \in S : \A y \in S : y <= x
SetMin(S) == CHOOSE x \in S : \A y \in S : x <= y

\* The rain maximum of the specification: 0 when no slot carries rain.
SummaryMaxRain(wd) == IF CarriedRain(wd) = {} THEN 0 ELSE SetMax(CarriedRain(wd))

\* Rule 1, rule 2 and rule 3 of the specification on the last tick's inputs.
BikingHolds ==
    /\ SlotTemps(tick.seen) # {}
    /\ SummaryMaxRain(tick.seen) < rt
    /\ SetMin(SlotTemps(tick.seen)) > BikingTemp
DoorAlertHolds == SummaryMaxRain(tick.seen) > rt /\ tick.door = 1
HumidityHolds ==
    /\ tick.hum # Absent
    /\ (tick.hum[1] < HumLow \/ tick.hum[1] > HumHigh)

\* The state the rules select in their order, and its colour.
SelectedState ==
    IF BikingHolds THEN "Biking"
    ELSE IF DoorAlertHolds THEN "DoorAlert"
    ELSE IF HumidityHolds THEN "HumidityAlert"
    ELSE "Neutral"

ColorOf(state) ==
    CASE state = "Biking" -> GREEN
      [] state = "DoorAlert" -> RED
      [] state = "HumidityAlert" -> BLUE
      [] OTHER -> BLACK

\* C1: for every forecast with a minimum temperature, door state and humidity
\* reading, the branch logic() enters, and the colour it puts on the pixel,
\* are those of the first rule that holds in the order Biking, DoorAlert,
\* HumidityAlert, Neutral.
C1_PriorityOrder ==
    (tick.ran /\ SlotTemps(tick.seen) # {} /\ tick.hum # Absent) =>
        (tick.rule = SelectedState /\ np = ColorOf(SelectedState))

\* C1 witness: Biking was chosen with the door open and the humidity outside
\* the band.
C1_Witness ==
    /\ tick.ran
    /\ lastOp = "updateDisplay"
    /\ BikingHolds
    /\ tick.door = 1
    /\ HumidityHolds
    /\ tick.rule = "Biking"
    /\ np = GREEN

\* C2: a tick on an empty forecast with the door open and humidity 50 does not
\* raise, uses maxRain = 0 and ends Neutral with the pixel black.
C2_EmptyForecastNeutral ==
    (tick.ran /\ SlotTemps(tick.seen) = {} /\ tick.door = 1 /\ tick.hum = Some(50 * Scale)) =>
        (tick.exc = "" /\ tick.rain = 0 /\ tick.rule = "Neutral" /\ np = BLACK)

\* C3: after a tick of the running station has ended, the pixel holds the
\* colour of the state the tick's inputs select, and the tick returned a
\* message for it.
C3_ColorIsOfThisTick ==
    (tick.ran /\ pc = "running" /\ tick.hum # Absent) =>
        (np = ColorOf(SelectedState) /\ tick.res # Absent)

\* C4: when the Biking condition holds the evaluation returns without raising,
\* the pixel is green, the message carries the slot-0 temperature and is
\* published as the alert.
C4_BikingReturns ==
    (tick.ran /\ BikingHolds) =>
        /\ tick.exc = ""
        /\ np = GREEN
        /\ tick.res = Some("biking: " \o FloatStr(tick.seen.list[1].temp))
        /\ mqtt["wz/alert"] = tick.res[1]

\* C5: an evaluation without a humidity reading returns no advisory and ends
\* in a reported failure, not in an exception of the interpreter.
C5_MissingHumidityReported ==
    (tick.ran /\ tick.hum = Absent) =>
        /\ tick.res = Absent
        /\ tick.exc \notin {"", "TypeError", "NameError", "IndexError", "ValueError"}

\* C6: the reads of the summary see the forecast the decision read, and the
\* published and displayed summary values are those of that forecast.
C6_OneSnapshot ==
    (tick.ran /\ tick.summary # Absent) =>
        /\ tick.summary[1] = tick.seen
        /\ tick.exc = "" =>
            /\ mqtt["forecast/tempmin"] = FloatStr(SetMin(SlotTemps(tick.seen)))
            /\ mqtt["forecast/tempmax"] = FloatStr(SetMax(SlotTemps(tick.seen)))
            /\ lcd[3] = "Rain(max): " \o
                   (IF CarriedRain(tick.seen) = {} THEN "0"
                    ELSE FloatStr(SetMax(CarriedRain(tick.seen))))

\* C6 witness: a timer tick ran to its end after a refresh that failed.
C6_Witness ==
    /\ pc = "running"
    /\ lastOp = "updateDisplay"
    /\ r.status = 401
    /\ tick.exc = ""
    /\ tick.summary = Some(weatherdata)

\* C7: in state Neutral the message carries the local temperature reading of
\* the tick, not a forecast temperature.
C7_NeutralShowsLocal ==
    (tick.ran /\ tick.rule = "Neutral") =>
        tick.res = Some("aussen: " \o FloatStr(tick.ltemp))

\* C8: the rain value of the decision is the maximum over the slots that carry
\* rain, 0 when none does, and without rain data DoorAlert is not chosen.
C8_RainMaxAndNoDoorAlert ==
    tick.ran =>
        /\ tick.rain = SummaryMaxRain(tick.seen)
        /\ CarriedRain(tick.seen) = {} =>
               (tick.rule # "DoorAlert" /\ tick.res # Some("HODOR"))

\* C8 witness: a cold forecast without rain data, the door open.
C8_Witness ==
    /\ tick.ran
    /\ lastOp = "updateDisplay"
    /\ SlotTemps(tick.seen) # {}
    /\ CarriedRain(tick.seen) = {}
    /\ ~BikingHolds
    /\ tick.door = 1
    /\ tick.rule \in {"HumidityAlert", "Neutral"}

\* C9: with maxRain exactly 0.001 the result is HumidityAlert or Neutral by
\* the humidity alone; with maxRain 0.0009 DoorAlert is never chosen and
\* Biking is chosen as soon as the minimum temperature is above 10.
C9_StrictThreshold ==
    (tick.ran /\ tick.hum # Absent /\ CarriedRain(tick.seen) # {}) =>
        /\ SetMax(CarriedRain(tick.seen)) = rt =>
               tick.rule = (IF HumidityHolds THEN "HumidityAlert" ELSE "Neutral")
        /\ SetMax(CarriedRain(tick.seen)) = rt - 1 =>
               /\ tick.rule # "DoorAlert"
               /\ SetMin(SlotTemps(tick.seen)) > BikingTemp => tick.rule = "Biking"

\* C9 witness: maxRain exactly 0.001, warm, the door open, humidity in the band.
C9_Witness ==
    /\ tick.ran
    /\ lastOp = "updateDisplay"
    /\ CarriedRain(tick.seen) # {}
    /\ SetMax(CarriedRain(tick.seen)) = rt
    /\ SetMin(SlotTemps(tick.seen)) > BikingTemp
    /\ tick.door = 1
    /\ tick.hum = Some(50 * Scale)
    /\ tick.rule = "Neutral"

\* C10: a getForecast step changes only the stored forecast and the response:
\* the pixel, the display, the published messages and the last evaluation
\* stay; status 200 stores the fetched document, any other status keeps the
\* stored one.
C10_RefreshFrame ==
    [][lastOp' = "getForecast" =>
          /\ UNCHANGED <<np, lcd, shown, mqtt, tick>>
          /\ r'.status = 200 => weatherdata' = r'.body[1]
          /\ r'.status # 200 => weatherdata' = weatherdata]_vars

\* C10 witness: a refresh of the running station failed and the forecast of
\* the last tick is still stored.
C10_Witness ==
    /\ pc = "running"
    /\ lastOp = "getForecast"
    /\ r.status = 401
    /\ tick.ran
    /\ weatherdata = tick.seen
    /\ weatherdata.has
====
